---- MODULE Spec2Model ----
(***************************************************************************)
(* Model of the Polish-radio extractor family of                           *)
(* src/yt_dlp/extractor/polskieradio.py: URL dispatch (suitable), the      *)
(* handlers' _real_extract, and the lazy entry sequences they return,      *)
(* driven by a single-threaded consumer that pulls one entry at a time.    *)
(*                                                                         *)
(* URLs are modelled at the granularity the _VALID_URL patterns look at:   *)
(* scheme, sub-domain, domain and a path of segment tokens.                *)
(*   "d"    a segment of digits only            (\d+ followed by / or end) *)
(*   "d,s"  digits, a comma and a slug          (\d+(?:,[^/]+)?)           *)
(* Documents and API pages are chosen by the remote side when they are     *)
(* fetched (\E at the fetch), and recorded in the fetch log.               *)
(***************************************************************************)
EXTENDS Integers, Sequences, FiniteSets, TLC

VARIABLES
    url,        \* the URL handed to the registry
    ie,         \* the handler the registry selected ("none": not selected)
    pc,         \* position of the extraction / of the suspended generator
    result,     \* what _real_extract returned
    doc,        \* the document (or first API response) _real_extract fetched
    i,          \* loop variable of the running generator (page or block index)
    buf,        \* items of the current page not yet yielded
    seen,       \* media_urls of _extract_webpage_player_entries
    out,        \* entries delivered to the consumer, in order
    log,        \* every fetch made, in order
    running,    \* a pull is in progress (the generator is executing)
    pulls,      \* number of pulls the consumer has made
    cancelled,  \* the consumer has abandoned the sequence
    err,        \* the error that surfaced ("none": no error)
    base_data,  \* the base_data dict handed to _extract_webpage_player_entries
    chain,      \* the handlers this resolution has gone through, in order
    seed,       \* the fields of the deferred reference being resolved
    passes,     \* how often the entries have been iterated from the start
    first,      \* the entries the first iteration delivered
    variant,    \* the web front end that is running ("none": no front end)
    disk,       \* the temp files of the front end: whose media each path holds
    req         \* the requests the front end is handling

\* the state of the result resolver, of the iteration and of the web front end
resolver == <<chain, seed>>
iteration == <<passes, first>>
server == <<variant, disk, req>>

vars == <<url, ie, pc, result, doc, i, buf, seen, out, log, running, pulls, cancelled, err,
          base_data, chain, seed, passes, first, variant, disk, req>>

----------------------------------------------------------------------------
(* Bounds *)

MaxPathLen == 4
MaxBlocks == 3
MaxAttachments == 3
MaxPages == 2
MaxItemCount == 21
MaxChannels == 2
MaxStations == 2
MaxRequests == 2

----------------------------------------------------------------------------
(* URLs *)

Schemes == {"http", "https", "ftp"}
Subs == {"", "www", "jedynka", "podcasty"}
Domains == {"polskieradio.pl", "polskieradio24.pl", "example.com"}
Segments == {"d", "d,s", "Artykul", "artykul", "audycje", "podcast"}

Paths == UNION {[1..n -> Segments] : n \in 0..MaxPathLen}

URLs == [scheme : Schemes, sub : Subs, domain : Domains, path : Paths]

MkURL(sub, domain, path) == [scheme |-> "https", sub |-> sub, domain |-> domain, path |-> path]

Http(u) == u.scheme \in {"http", "https"}

\* a pattern's final (?P<id>\d+) is matched as a prefix of the segment
StartsWithDigits(seg) == seg \in {"d", "d,s"}

\* r'https?://(?:www\.)?polskieradio(?:24)?\.pl/\d+/\d+/[Aa]rtykul/(?P<id>\d+)'
LegacyValidURL(u) ==
    /\ Http(u)
    /\ u.sub \in {"", "www"}
    /\ u.domain \in {"polskieradio.pl", "polskieradio24.pl"}
    /\ Len(u.path) >= 4
    /\ u.path[1] = "d"
    /\ u.path[2] = "d"
    /\ u.path[3] \in {"Artykul", "artykul"}
    /\ StartsWithDigits(u.path[4])

\* r'https?://(?:[^/]+\.)?polskieradio(?:24)?\.pl/artykul/(?P<id>\d+)'
PolskieRadioValidURL(u) ==
    /\ Http(u)
    /\ u.domain \in {"polskieradio.pl", "polskieradio24.pl"}
    /\ Len(u.path) >= 2
    /\ u.path[1] = "artykul"
    /\ StartsWithDigits(u.path[2])

\* r'https?://(?:[^/]+\.)?polskieradio\.pl/audycj[ae]/(?P<id>\d+)'
AuditionValidURL(u) ==
    /\ Http(u)
    /\ u.domain = "polskieradio.pl"
    /\ Len(u.path) >= 2
    /\ u.path[1] = "audycje"
    /\ StartsWithDigits(u.path[2])

\* r'https?://(?:www\.)?polskieradio\.pl/\d+(?:,[^/]+)?/(?P<id>\d+)'
CategoryValidURL(u) ==
    /\ Http(u)
    /\ u.sub \in {"", "www"}
    /\ u.domain = "polskieradio.pl"
    /\ Len(u.path) >= 2
    /\ u.path[1] \in {"d", "d,s"}
    /\ StartsWithDigits(u.path[2])

\* r'https?://podcasty\.polskieradio\.pl/podcast/(?P<id>\d+)'
PodcastListValidURL(u) ==
    /\ Http(u)
    /\ u.sub = "podcasty"
    /\ u.domain = "polskieradio.pl"
    /\ Len(u.path) >= 2
    /\ u.path[1] = "podcast"
    /\ StartsWithDigits(u.path[2])

\* r'https?://player\.polskieradio\.pl/anteny/(?P<id>[^/]+)'
PlayerValidURL(u) ==
    /\ Http(u)
    /\ u.sub = "player"
    /\ u.domain = "polskieradio.pl"
    /\ Len(u.path) >= 2
    /\ u.path[1] = "anteny"

\* r'https?://podcasty\.polskieradio\.pl/track/(?P<id>[a-f\d]{8}(?:-[a-f\d]{4}){4}[a-f\d]{8})'
PodcastValidURL(u) ==
    /\ Http(u)
    /\ u.sub = "podcasty"
    /\ u.domain = "polskieradio.pl"
    /\ Len(u.path) >= 2
    /\ u.path[1] = "track"
    /\ u.path[2] = "uuid"

\* r'https?://(?:www\.)?radiokierowcow\.pl/artykul/(?P<id>[0-9]+)'
RadioKierowcowValidURL(u) ==
    /\ Http(u)
    /\ u.sub \in {"", "www"}
    /\ u.domain = "radiokierowcow.pl"
    /\ Len(u.path) >= 2
    /\ u.path[1] = "artykul"
    /\ StartsWithDigits(u.path[2])

\* InfoExtractor.suitable: the URL matches the handler's _VALID_URL
LegacySuitable(u) == LegacyValidURL(u)
PolskieRadioSuitable(u) == PolskieRadioValidURL(u)
AuditionSuitable(u) == AuditionValidURL(u)
PodcastListSuitable(u) == PodcastListValidURL(u)
PlayerSuitable(u) == PlayerValidURL(u)
PodcastSuitable(u) == PodcastValidURL(u)
RadioKierowcowSuitable(u) == RadioKierowcowValidURL(u)

\* mutant: suitable is not overridden
CategorySuitableNoOverride(u) == CategoryValidURL(u)

\* PolskieRadioCategoryIE.suitable
CategorySuitable(u) == IF LegacySuitable(u) THEN FALSE ELSE CategoryValidURL(u)

Handlers == {"legacy", "article", "audition", "category", "player", "podcastlist", "podcast",
             "kierowcow"}

Suitable(h, u) ==
    CASE h = "legacy" -> LegacySuitable(u)
      [] h = "article" -> PolskieRadioSuitable(u)
      [] h = "audition" -> AuditionSuitable(u)
      [] h = "category" -> CategorySuitable(u)
      [] h = "podcastlist" -> PodcastListSuitable(u)
      [] h = "player" -> PlayerSuitable(u)
      [] h = "podcast" -> PodcastSuitable(u)
      [] h = "kierowcow" -> RadioKierowcowSuitable(u)

\* one registration order, as the classes stand in the file
FileOrder == <<"legacy", "article", "audition", "category", "player", "podcastlist", "podcast",
               "kierowcow">>

Rotate(s, r) == [k \in 1..Len(s) |-> s[((k + r - 1) % Len(s)) + 1]]

Reverse(s) == [k \in 1..Len(s) |-> s[Len(s) + 1 - k]]

\* registration orders: the rotations of the file's order and of its reverse,
\* so that every two handlers stand in both relative orders
Orders == {Rotate(FileOrder, r) : r \in 0..(Len(FileOrder) - 1)}
          \cup {Rotate(Reverse(FileOrder), r) : r \in 0..(Len(FileOrder) - 1)}

\* the registry: the first handler, in registration order, that accepts the URL
Resolve(u, order) ==
    LET acc == {k \in DOMAIN order : Suitable(order[k], u)}
    IN  IF acc = {} THEN "none"
        ELSE order[CHOOSE k \in acc : \A m \in acc : k <= m]

----------------------------------------------------------------------------
(* Documents, pages and entries *)

\* the URLs a resolution starts from
StartURLs == {
    MkURL("www", "polskieradio.pl", <<"d", "d", "Artykul", "d,s">>),
    MkURL("jedynka", "polskieradio.pl", <<"artykul", "d,s">>),
    MkURL("jedynka", "polskieradio.pl", <<"audycje", "d">>),
    MkURL("www", "polskieradio.pl", <<"d,s", "d">>),
    MkURL("podcasty", "polskieradio.pl", <<"podcast", "d">>),
    MkURL("player", "polskieradio.pl", <<"anteny", "trojka">>),
    MkURL("podcasty", "polskieradio.pl", <<"track", "uuid">>),
    MkURL("www", "radiokierowcow.pl", <<"artykul", "d">>),
    MkURL("", "example.com", <<"d">>)}

\* the final URLs the download of u may end at: u itself, or a URL of the redesigned site
FinalURLs(u) == {u, MkURL("jedynka", "polskieradio.pl", <<"artykul", "d,s">>),
                 MkURL("jedynka", "polskieradio.pl", <<"audycje", "d">>)}

\* values of a data-media object's 'file'; "NULL": the key is absent
Files == {"NULL", "", "//static.prsa.pl/a.mp3", "https://static.prsa.pl/a.mp3", "//static.prsa.pl/b.mp3"}

\* values of a data-media object's 'desc' (URL-quoted); "NULL": the key is absent
Descs == {"NULL", "", "Ala%20ma"}

\* InfoExtractor._proto_relative_url with the default scheme
ProtoRelativeUrl(f) ==
    CASE f = "//static.prsa.pl/a.mp3" -> "https://static.prsa.pl/a.mp3"
      [] f = "//static.prsa.pl/b.mp3" -> "https://static.prsa.pl/b.mp3"
      [] OTHER -> f

\* compat_urllib_parse_unquote
Unquote(d) == IF d = "Ala%20ma" THEN "Ala ma" ELSE d

\* compat_str of a media id
Str(n) == IF n = 1 THEN "1" ELSE IF n = 2 THEN "2" ELSE "0"

\* not x, for a value fetched with dict.get
Falsy(x) == x \in {"NULL", ""}

\* a data-media object; media 2 is a video with a 'length', media 1 an audio without
DataMedia(parsed, file, desc, hasId, id) ==
    [parsed |-> parsed, file |-> file, desc |-> desc, hasId |-> hasId, id |-> id,
     length |-> IF id = 2 THEN "10" ELSE "NULL",
     provider |-> IF id = 2 THEN "video" ELSE "audio"]

\* a data-media attribute of the content; parsed = FALSE: _parse_json(fatal=False) gave None
Blocks ==
    {DataMedia(FALSE, "NULL", "NULL", FALSE, 1)}
    \cup {DataMedia(TRUE, f, "Ala%20ma", TRUE, n) : f \in Files \ {"NULL", ""}, n \in {1, 2}}
    \cup {DataMedia(TRUE, f, "Ala%20ma", FALSE, 1) : f \in Files \ {"NULL", ""}}
    \cup {DataMedia(TRUE, f, "Ala%20ma", TRUE, 1) : f \in {"NULL", ""}}
    \cup {DataMedia(TRUE, "//static.prsa.pl/a.mp3", d, TRUE, 1) : d \in {"NULL", ""}}
    \cup {DataMedia(TRUE, "NULL", "NULL", TRUE, 1)}

BlockSeqs == UNION {[1..n -> Blocks] : n \in 0..MaxBlocks}

\* an attachment of articleData
Attachments == [fileType : {"Audio", "Video"}, uuid : {"NULL", "u1", "u2"}, hasDesc : BOOLEAN]

AttachmentSeqs == UNION {[1..n -> Attachments] : n \in 0..MaxAttachments}

\* an entry of the player's channel list: 'url', 'streamName', 'name' ("NULL": absent)
Channels ==
    {[url |-> u, streamName |-> n[1], name |-> n[2]] :
        u \in {"trojka", "dwojka"},
        n \in {<<"NULL", "NULL">>, <<"NULL", "Trojka">>, <<"", "Trojka">>, <<"Trojka", "Dwojka">>}}

ChannelLists == UNION {[1..n -> Channels] : n \in 0..MaxChannels}

\* an entry of the stations API: 'Name' ("NULL": absent), 'Streams' (present or not)
Stations == [Name : {"NULL", "Trojka", "Dwojka"}, hasStreams : BOOLEAN]

StationLists == UNION {[1..n -> Stations] : n \in 0..MaxStations}

NoDoc == [finalUrl |-> MkURL("", "example.com", <<>>), hasTitle |-> FALSE, hasContent |-> FALSE,
          hasSource |-> FALSE, blocks |-> <<>>, hasData |-> FALSE, attachments |-> <<>>,
          hasEpisodes |-> FALSE, hasArticles |-> FALSE, itemCount |-> 0, items |-> <<>>,
          hasNext |-> FALSE, channels |-> <<>>, stations |-> <<>>, title |-> "NULL"]

NoResult == [type |-> "none", ie_key |-> "", url |-> MkURL("", "example.com", <<>>), entries |-> <<>>,
             title |-> "NULL"]

\* no base_data: no handler has built one
NoBase == [title |-> "NULL", timestamp |-> "NULL", thumbnail |-> "NULL"]

\* no deferred reference is being resolved
NoSeed == [set |-> FALSE, title |-> "NULL", applied |-> FALSE]

\* the temp files of the web front ends
TempPaths == {"./input/CHATGPT_.mp4", "CHATGPT_.mp3", "CHATGPT_.mp4"}

\* no web front end is running
ServerOff == variant = "none" /\ disk = [p \in TempPaths |-> 0] /\ req = <<>>

\* an entry of a playlist; stream, page and k say where its source item stood
Entry(type, key, stream, page, k, id, u, title) ==
    [type |-> type, ie_key |-> key, stream |-> stream, page |-> page, k |-> k,
     id |-> id, url |-> u, title |-> title]

\* the items of a fetched page: item k of page p, ok = the item can be yielded
PageItems(p, oks) == [k \in 1..Len(oks) |-> [page |-> p, k |-> k, ok |-> oks[k]]]

AllOk(n) == [k \in 1..n |-> TRUE]

\* one fetch: what was fetched, its index, whether it succeeded, the items it
\* held (oks) and how many of them can be yielded (n), during which pull it
\* happened (0: inside _real_extract), and how many entries had been delivered
FetchOf(what, index, ok, oks) ==
    [what |-> what, index |-> index, ok |-> ok, oks |-> oks,
     n |-> Cardinality({k \in DOMAIN oks : oks[k]}), pull |-> pulls, got |-> Len(out)]

Fetch(what, index, ok, n) == FetchOf(what, index, ok, AllOk(n))

----------------------------------------------------------------------------
(* Program constants *)

FirstPage == 1             \* itertools.count(1)
EpisodePageSize == 10      \* 'PageSize': 10
ArticlePageSize == 9       \* 'PageSize': 9
CategorySecondPage == 2    \* itertools.count(2)
PodcastPageSize == 10      \* _PAGE_SIZE

----------------------------------------------------------------------------
(* Initial state and the registry *)

Idle ==
    /\ ie = "none"
    /\ pc = "resolve"
    /\ result = NoResult
    /\ doc = NoDoc
    /\ i = 0
    /\ buf = <<>>
    /\ seen = {}
    /\ out = <<>>
    /\ log = <<>>
    /\ running = FALSE
    /\ pulls = 0
    /\ cancelled = FALSE
    /\ err = "none"
    /\ base_data = NoBase
    /\ chain = <<>>
    /\ seed = NoSeed
    /\ passes = 1
    /\ first = <<>>

Init == url \in StartURLs /\ Idle /\ ServerOff

InitDispatch == url \in URLs /\ Idle /\ ServerOff

\* the registry selects the handler for the URL
ResolveURL ==
    /\ pc = "resolve"
    /\ \E order \in Orders :
         LET h == Resolve(url, order) IN
         /\ ie' = h
         /\ pc' = IF h = "none" THEN "failed" ELSE "extract"
         /\ err' = IF h = "none" THEN "NoMatchingHandler" ELSE err
         /\ chain' = IF h = "none" THEN chain ELSE <<h>>
    /\ UNCHANGED <<url, result, doc, i, buf, seen, out, log, running, pulls, cancelled>>
    /\ UNCHANGED <<base_data, seed, iteration, server>>

----------------------------------------------------------------------------
(* _real_extract of the handlers *)

\* _real_extract raises
Fails(kind) ==
    /\ result' = [NoResult EXCEPT !.type = "error"]
    /\ pc' = "failed"
    /\ err' = kind
    /\ UNCHANGED <<i, buf>>

\* self.url_result(u, key)
ReturnsUrl(u, key) ==
    /\ result' = [NoResult EXCEPT !.type = "url", !.ie_key = key, !.url = u]
    /\ pc' = "returned"
    /\ UNCHANGED <<i, buf, err>>

\* a single media record
ReturnsVideo ==
    /\ result' = [NoResult EXCEPT !.type = "video"]
    /\ pc' = "returned"
    /\ UNCHANGED <<i, buf, err>>

\* a playlist whose entries are produced from position p on
ReturnsPlaylist(p, index, items) ==
    /\ result' = [NoResult EXCEPT !.type = "playlist"]
    /\ pc' = p
    /\ i' = index
    /\ buf' = items
    /\ UNCHANGED err

\* self.playlist_result(entries, playlist_id, title, ...) with a title that may be None
ReturnsTitledPlaylist(p, index, items, title) ==
    /\ result' = [NoResult EXCEPT !.type = "playlist", !.title = title]
    /\ pc' = p
    /\ i' = index
    /\ buf' = items
    /\ UNCHANGED err

\* the legacy article page, as far as _real_extract looks at it
LegacyPages ==
    {[NoDoc EXCEPT !.hasTitle = t, !.hasSource = s] : t \in BOOLEAN, s \in BOOLEAN}
    \cup {[NoDoc EXCEPT !.hasContent = TRUE]}
    \cup {[NoDoc EXCEPT !.hasContent = TRUE, !.hasTitle = TRUE, !.blocks = b] : b \in BlockSeqs}

\* mutant: the page is parsed before the final URL is looked at
LegacyOutcomeParseFirst(final, page) ==
    IF ~page.hasTitle THEN "ExtractorError"
    ELSE IF PolskieRadioSuitable(final) THEN "redirect"
    ELSE IF ~page.hasContent THEN (IF page.hasSource THEN "video" ELSE "ExtractorError")
    ELSE "playlist"

\* PolskieRadioLegacyIE._real_extract after the download
LegacyOutcome(final, page) ==
    IF PolskieRadioSuitable(final) THEN "redirect"
    ELSE IF ~page.hasTitle THEN "ExtractorError"
    ELSE IF ~page.hasContent THEN (IF page.hasSource THEN "video" ELSE "ExtractorError")
    ELSE "playlist"

\* the base_data of PolskieRadioLegacyIE: title, timestamp and thumbnail of the page
LegacyBaseData == [title |-> "title", timestamp |-> "timestamp", thumbnail |-> "thumbnail"]

LegacyRealExtract ==
    /\ pc = "extract" /\ ie = "legacy"
    /\ \/ /\ log' = Append(log, Fetch("webpage", 1, FALSE, 0))
          /\ Fails("FetchError")
          /\ UNCHANGED <<doc, base_data>>
       \/ \E final \in FinalURLs(url), page \in LegacyPages :
            LET o == LegacyOutcome(final, page) IN
            /\ log' = Append(log, Fetch("webpage", 1, TRUE, 0))
            /\ doc' = [page EXCEPT !.finalUrl = final]
            /\ CASE o = "redirect" -> ReturnsUrl(final, "article")
                 [] o = "video" -> ReturnsVideo
                 [] o = "playlist" -> ReturnsPlaylist("pe", 1, <<>>)
                 [] OTHER -> Fails(o)
            /\ base_data' = IF o = "playlist" THEN LegacyBaseData ELSE base_data
    /\ UNCHANGED <<url, ie, seen, out, running, pulls, cancelled>>
    /\ UNCHANGED <<resolver, iteration, server>>

\* the values of articleData['title']: blank, or a text with a space around it
ArticleTitles == {" ", " B"}

\* strip_or_none
StripOrNone(v) == IF v = " B" THEN "B" ELSE IF v = " " THEN "NULL" ELSE v

\* the article page: __NEXT_DATA__ with articleData, its title, its attachments
ArticlePages ==
    {[NoDoc EXCEPT !.hasData = d, !.hasTitle = t] : d \in BOOLEAN, t \in BOOLEAN}
    \cup {[NoDoc EXCEPT !.hasData = TRUE, !.hasTitle = TRUE, !.title = t, !.attachments = a] :
            t \in ArticleTitles, a \in AttachmentSeqs}

\* mutant: video attachments are kept as well
IsAudioOrVideo(a) == a.fileType \in {"Audio", "Video"}

\* entry['fileType'] in ('Audio', )
IsAudio(a) == a.fileType = "Audio"

\* mutant: the attachments are walked from the last to the first
AudioPositionsReversed(atts) ==
    LET idx == SelectSeq([k \in 1..Len(atts) |-> k], LAMBDA k : IsAudio(atts[k]))
    IN  [j \in 1..Len(idx) |-> idx[Len(idx) + 1 - j]]

\* the positions of the attachments the comprehension keeps
AudioPositions(atts) == SelectSeq([k \in 1..Len(atts) |-> k], LAMBDA k : IsAudio(atts[k]))

\* the entries list of PolskieRadioIE._real_extract
ArticleEntries(atts) ==
    LET idx == AudioPositions(atts)
    IN  [j \in 1..Len(idx) |->
            Entry("video", "", "attachment", 0, idx[j], atts[idx[j]].uuid, atts[idx[j]].uuid,
                  IF atts[idx[j]].hasDesc THEN "description" ELSE "title")]

\* PolskieRadioIE._real_extract after the download
ArticleOutcome(page) ==
    IF ~page.hasData THEN "ExtractorError"
    ELSE IF ~page.hasTitle THEN "KeyError"
    ELSE IF \E k \in DOMAIN page.attachments :
                IsAudio(page.attachments[k]) /\ page.attachments[k].uuid = "NULL"
         THEN "ExtractorError"
    ELSE "playlist"

PolskieRadioRealExtract ==
    /\ pc = "extract" /\ ie = "article"
    /\ \/ /\ log' = Append(log, Fetch("webpage", 1, FALSE, 0))
          /\ Fails("FetchError")
          /\ doc' = doc
       \/ \E page \in ArticlePages :
            LET o == ArticleOutcome(page) IN
            /\ log' = Append(log, Fetch("webpage", 1, TRUE, 0))
            /\ doc' = page
            /\ IF o = "playlist"
               THEN ReturnsTitledPlaylist("list", 0, ArticleEntries(page.attachments),
                                          StripOrNone(page.title))
               ELSE Fails(o)
    /\ UNCHANGED <<url, ie, seen, out, running, pulls, cancelled>>
    /\ UNCHANGED <<base_data, resolver, iteration, server>>

\* the audition page: __NEXT_DATA__ and what pageProps declares
AuditionPages ==
    {[NoDoc EXCEPT !.hasData = FALSE]}
    \cup {[NoDoc EXCEPT !.hasData = TRUE, !.hasEpisodes = e, !.hasArticles = a] :
            e \in BOOLEAN, a \in BOOLEAN}

AuditionRealExtract ==
    /\ pc = "extract" /\ ie = "audition"
    /\ \/ /\ log' = Append(log, Fetch("webpage", 1, FALSE, 0))
          /\ Fails("FetchError")
          /\ doc' = doc
       \/ \E page \in AuditionPages :
            /\ log' = Append(log, Fetch("webpage", 1, TRUE, 0))
            /\ doc' = page
            /\ IF page.hasData
               THEN ReturnsPlaylist("ep", FirstPage, <<>>)
               ELSE Fails("ExtractorError")
    /\ UNCHANGED <<url, ie, seen, out, running, pulls, cancelled>>
    /\ UNCHANGED <<base_data, resolver, iteration, server>>

\* a legacy category listing page: its <article> links (TRUE: the <a> has an
\* href attribute) and whether it has a "next" link; page MaxPages is the last
CategoryPages(index) ==
    [items : {<<>>, <<TRUE>>, <<FALSE, TRUE>>, AllOk(10)},
     hasNext : IF index < MaxPages THEN BOOLEAN ELSE {FALSE}]

\* PolskieRadioCategoryIE._real_extract after the download
CategoryOutcome(final) == IF AuditionSuitable(final) THEN "redirect" ELSE "playlist"

CategoryRealExtract ==
    /\ pc = "extract" /\ ie = "category"
    /\ \/ /\ log' = Append(log, Fetch("category", 1, FALSE, 0))
          /\ Fails("FetchError")
          /\ doc' = doc
       \/ \E final \in FinalURLs(url), page \in CategoryPages(1) :
            /\ log' = Append(log, FetchOf("category", 1, TRUE, page.items))
            /\ doc' = [NoDoc EXCEPT !.finalUrl = final, !.items = page.items, !.hasNext = page.hasNext]
            /\ IF CategoryOutcome(final) = "redirect"
               THEN ReturnsUrl(final, "audition")
               ELSE ReturnsPlaylist("cat_items", CategorySecondPage, PageItems(1, page.items))
    /\ UNCHANGED <<url, ie, seen, out, running, pulls, cancelled>>
    /\ UNCHANGED <<base_data, resolver, iteration, server>>

\* math.ceil(total / size)
Ceil(total, size) == (total + size - 1) \div size

\* the item counts an API page may hold
PageLens(size) == {0, 1, size}

PodcastListRealExtract ==
    /\ pc = "extract" /\ ie = "podcastlist"
    /\ \/ /\ log' = Append(log, Fetch("podcast", 1, FALSE, 0))
          /\ Fails("FetchError")
          /\ doc' = doc
       \/ \E total \in 0..MaxItemCount, n \in PageLens(PodcastPageSize) :
            /\ log' = Append(log, Fetch("podcast", 1, TRUE, n))
            /\ doc' = [NoDoc EXCEPT !.itemCount = total, !.items = AllOk(n)]
            /\ ReturnsPlaylist("pl_page", 0, <<>>)
    /\ UNCHANGED <<url, ie, seen, out, running, pulls, cancelled>>
    /\ UNCHANGED <<base_data, resolver, iteration, server>>

\* InfoExtractor._match_id for the player: the channel of the URL
ChannelUrl(u) == u.path[2]

\* next((c for c in channel_list if c.get('url') == channel_url), None); 0: None
FindChannel(channel_list, channel_url) ==
    LET found == {k \in DOMAIN channel_list : channel_list[k].url = channel_url}
    IN  IF found = {} THEN 0 ELSE CHOOSE k \in found : \A m \in found : k <= m

\* mutant: name before streamName
StreamTargetNameFirst(channel) ==
    IF ~Falsy(channel.name) THEN channel.name ELSE channel.streamName

\* channel.get('streamName') or channel.get('name')
StreamTarget(channel) ==
    IF ~Falsy(channel.streamName) THEN channel.streamName ELSE channel.name

\* next((s for s in station_list if s.get('Name') == ...), None); 0: None
FindStation(station_list, target) ==
    LET found == {k \in DOMAIN station_list : station_list[k].Name = target}
    IN  IF found = {} THEN 0 ELSE CHOOSE k \in found : \A m \in found : k <= m

\* PolskieRadioPlayerIE._real_extract once the station list is there
PlayerStationOutcome(channel, station_list) ==
    LET st == FindStation(station_list, StreamTarget(channel))
    IN  IF st = 0 THEN "ExtractorError"
        ELSE IF ~station_list[st].hasStreams THEN "KeyError"
        ELSE "video"

\* PolskieRadioPlayerIE._real_extract: the js player, the channel, the stations, the station
PlayerRealExtract ==
    /\ pc = "extract" /\ ie = "player"
    /\ \/ /\ log' = Append(log, Fetch("player_js", 1, FALSE, 0))
          /\ Fails("FetchError")
          /\ doc' = doc
       \/ /\ log' = Append(log, Fetch("player_js", 1, TRUE, 0))
          /\ Fails("ExtractorError")
          /\ doc' = doc
       \/ \E channel_list \in ChannelLists :
            LET ch == FindChannel(channel_list, ChannelUrl(url)) IN
            IF ch = 0
            THEN /\ log' = Append(log, Fetch("player_js", 1, TRUE, 0))
                 /\ doc' = [NoDoc EXCEPT !.hasData = TRUE, !.channels = channel_list]
                 /\ Fails("ExtractorError")
            ELSE \/ /\ log' = log \o <<Fetch("player_js", 1, TRUE, 0), Fetch("stations", 1, FALSE, 0)>>
                    /\ doc' = [NoDoc EXCEPT !.hasData = TRUE, !.channels = channel_list]
                    /\ Fails("FetchError")
                 \/ \E station_list \in StationLists :
                      LET o == PlayerStationOutcome(channel_list[ch], station_list) IN
                      /\ log' = log \o <<Fetch("player_js", 1, TRUE, 0), Fetch("stations", 1, TRUE, 0)>>
                      /\ doc' = [NoDoc EXCEPT !.hasData = TRUE, !.channels = channel_list,
                                               !.stations = station_list]
                      /\ IF o = "video" THEN ReturnsVideo ELSE Fails(o)
    /\ UNCHANGED <<url, ie, seen, out, running, pulls, cancelled>>
    /\ UNCHANGED <<base_data, resolver, iteration, server>>

\* PolskieRadioPodcastIE._real_extract: the metadata of one track, data[0] parsed
PodcastRealExtract ==
    /\ pc = "extract" /\ ie = "podcast"
    /\ \/ /\ log' = Append(log, Fetch("audio", 1, FALSE, 0))
          /\ Fails("FetchError")
       \/ \E n \in {0, 1}, complete \in BOOLEAN :
            /\ log' = Append(log, Fetch("audio", 1, TRUE, n))
            /\ IF n = 0 THEN Fails("IndexError")
               ELSE IF ~complete THEN Fails("KeyError")
               ELSE ReturnsVideo
    /\ UNCHANGED <<url, ie, doc, seen, out, running, pulls, cancelled>>
    /\ UNCHANGED <<base_data, resolver, iteration, server>>

\* the base_data of PolskieRadioRadioKierowcowIE: the title alone
KierowcowBaseData == [NoBase EXCEPT !.title = "title"]

\* the article JSON of radiokierowcow.pl: pageProps.data with title and content
KierowcowPages ==
    {[NoDoc EXCEPT !.hasData = d, !.hasTitle = t] : d \in BOOLEAN, t \in BOOLEAN}
    \cup {[NoDoc EXCEPT !.hasData = TRUE, !.hasTitle = TRUE, !.hasContent = TRUE, !.blocks = b] :
            b \in BlockSeqs}

\* PolskieRadioRadioKierowcowIE._real_extract: the page for its buildId, then the article JSON
RadioKierowcowRealExtract ==
    /\ pc = "extract" /\ ie = "kierowcow"
    /\ \/ /\ log' = Append(log, Fetch("webpage", 1, FALSE, 0))
          /\ Fails("FetchError")
          /\ UNCHANGED <<doc, base_data>>
       \/ /\ log' = Append(log, Fetch("webpage", 1, TRUE, 0))
          /\ Fails("ExtractorError")
          /\ UNCHANGED <<doc, base_data>>
       \/ /\ log' = log \o <<Fetch("webpage", 1, TRUE, 0), Fetch("article_json", 1, FALSE, 0)>>
          /\ Fails("FetchError")
          /\ UNCHANGED <<doc, base_data>>
       \/ \E page \in KierowcowPages :
            /\ log' = log \o <<Fetch("webpage", 1, TRUE, 0), Fetch("article_json", 1, TRUE, 0)>>
            /\ doc' = page
            /\ IF page.hasData /\ page.hasTitle /\ page.hasContent
               THEN ReturnsPlaylist("pe", 1, <<>>) /\ base_data' = KierowcowBaseData
               ELSE Fails("KeyError") /\ base_data' = base_data
    /\ UNCHANGED <<url, ie, seen, out, running, pulls, cancelled>>
    /\ UNCHANGED <<resolver, iteration, server>>

----------------------------------------------------------------------------
(* The consumer *)

Suspended == result.type = "playlist" /\ pc \notin {"done", "raised"} /\ ~running /\ ~cancelled

\* the consumer asks for the next entry: the generator resumes
Pull ==
    /\ Suspended
    /\ running' = TRUE
    /\ pulls' = pulls + 1
    /\ UNCHANGED <<url, ie, pc, result, doc, i, buf, seen, out, log, cancelled, err>>
    /\ UNCHANGED <<base_data, resolver, iteration, server>>

\* the consumer abandons the sequence
Cancel ==
    /\ Suspended
    /\ cancelled' = TRUE
    /\ UNCHANGED <<url, ie, pc, result, doc, i, buf, seen, out, log, running, pulls, err>>
    /\ UNCHANGED <<base_data, resolver, iteration, server>>

----------------------------------------------------------------------------
(* The entry sequences *)

\* yield e: the entry goes to the consumer and the generator suspends
Yield(e) ==
    /\ out' = Append(out, e)
    /\ running' = FALSE
    /\ UNCHANGED err

\* the generator returns
Stop ==
    /\ pc' = "done"
    /\ running' = FALSE
    /\ UNCHANGED <<out, err>>

\* mutant: the exception is swallowed and the sequence just ends
RaiseSwallowed(kind) ==
    /\ pc' = "done"
    /\ running' = FALSE
    /\ UNCHANGED <<out, err>>

\* the generator raises
Raise(kind) ==
    /\ pc' = "raised"
    /\ running' = FALSE
    /\ err' = kind
    /\ out' = out

\* the generator goes on without yielding
Continue == UNCHANGED <<out, running, err>>

\* mutant: the page is walked from its end
TakeItemLast(b) == [item |-> b[Len(b)], rest |-> SubSeq(b, 1, Len(b) - 1)]

\* `for x in page`: the next item and the items that remain
TakeItem(b) == [item |-> Head(b), rest |-> Tail(b)]

\* mutant: the counter steps by two
NextPageSkip(index) == index + 2

\* itertools.count: the index after index
NextPage(index) == index + 1

\* mutant: the URL is looked up in media_urls before it is normalised
PlayerMediaOutcomeRawUrl(media, media_urls) ==
    IF ~media.parsed THEN "AttributeError"
    ELSE IF Falsy(media.file) \/ Falsy(media.desc) THEN "continue"
    ELSE IF media.file \in media_urls THEN "continue"
    ELSE IF ~media.hasId THEN "KeyError"
    ELSE "yield"

\* mutant: only 'file' is tested, media['desc'] is then read unguarded
PlayerMediaOutcomeNoDescTest(media, media_urls) ==
    IF ~media.parsed THEN "AttributeError"
    ELSE IF Falsy(media.file) THEN "continue"
    ELSE IF ProtoRelativeUrl(media.file) \in media_urls THEN "continue"
    ELSE IF media.desc = "NULL" \/ ~media.hasId THEN "KeyError"
    ELSE "yield"

\* what one data-media object makes _extract_webpage_player_entries do
PlayerMediaOutcome(media, media_urls) ==
    IF ~media.parsed THEN "AttributeError"
    ELSE IF Falsy(media.file) \/ Falsy(media.desc) THEN "continue"
    ELSE IF ProtoRelativeUrl(media.file) \in media_urls THEN "continue"
    ELSE IF ~media.hasId THEN "KeyError"
    ELSE "yield"

\* int_or_none of a media object's 'length'
IntOrNone(x) == IF x = "10" THEN "int 10" ELSE "NULL"

\* mutant: the entry is base_data itself, not a copy of it
EntryUpdateNoCopy(base, media, k) ==
    LET entry_title == Unquote(media.desc)
        title == IF entry_title # "" THEN entry_title ELSE base.title
    IN  [base |-> [base EXCEPT !.title = title],
         entry |-> [type |-> "video", ie_key |-> "", stream |-> "player", page |-> 0, k |-> k,
                    id |-> Str(media.id), url |-> ProtoRelativeUrl(media.file),
                    duration |-> IntOrNone(media.length),
                    vcodec |-> IF media.provider = "audio" THEN "none" ELSE "NULL",
                    title |-> title,
                    timestamp |-> base.timestamp, thumbnail |-> base.thumbnail]]

\* base_data and the entry after `entry = base_data.copy()`, entry.update({...})
\* and the assignment of the title, for data-media object k
EntryUpdate(base, media, k) ==
    LET entry_title == Unquote(media.desc)
    IN  [base |-> base,
         entry |-> [type |-> "video", ie_key |-> "", stream |-> "player", page |-> 0, k |-> k,
                    id |-> Str(media.id), url |-> ProtoRelativeUrl(media.file),
                    duration |-> IntOrNone(media.length),
                    vcodec |-> IF media.provider = "audio" THEN "none" ELSE "NULL",
                    title |-> IF entry_title # "" THEN entry_title ELSE base.title,
                    timestamp |-> base.timestamp, thumbnail |-> base.thumbnail]]

\* the entry yielded for data-media object k
PlayerEntry(media, k) == EntryUpdate(base_data, media, k).entry

\* PolskieRadioBaseExtractor._extract_webpage_player_entries, one data-media object
ExtractWebpagePlayerEntries ==
    /\ pc = "pe" /\ running
    /\ IF i > Len(doc.blocks)
       THEN Stop /\ UNCHANGED <<i, seen, base_data>>
       ELSE LET media == doc.blocks[i]
                o == PlayerMediaOutcome(media, seen)
            IN  CASE o = "yield" ->
                       /\ Yield(PlayerEntry(media, i))
                       /\ base_data' = EntryUpdate(base_data, media, i).base
                       /\ seen' = seen \cup {ProtoRelativeUrl(media.file)}
                       /\ i' = i + 1
                       /\ pc' = pc
                  [] o = "continue" ->
                       /\ Continue
                       /\ i' = i + 1
                       /\ UNCHANGED <<seen, pc, base_data>>
                  [] o = "KeyError" ->
                       /\ Raise(o)
                       /\ seen' = seen \cup {ProtoRelativeUrl(media.file)}
                       /\ i' = i
                       /\ base_data' = base_data
                  [] OTHER ->
                       /\ Raise(o)
                       /\ UNCHANGED <<i, seen, base_data>>
    /\ UNCHANGED <<url, ie, result, doc, buf, log, pulls, cancelled>>
    /\ UNCHANGED <<resolver, iteration, server>>

\* the consumer takes the next entry of the list PolskieRadioIE returned
ArticleListItems ==
    /\ pc = "list" /\ running
    /\ IF buf = <<>>
       THEN Stop /\ buf' = buf
       ELSE Yield(TakeItem(buf).item) /\ buf' = TakeItem(buf).rest /\ pc' = pc
    /\ UNCHANGED <<url, ie, result, doc, i, seen, log, pulls, cancelled>>
    /\ UNCHANGED <<base_data, resolver, iteration, server>>

\* the item counts API page index may hold: pages after MaxPages are empty
ApiLens(index, size) == IF index > MaxPages THEN {0} ELSE PageLens(size)

\* mutant: a page that is not full ends the stream
PageIsShort(n) == n <= 1

\* `if not traverse_obj(page, 'data'): break`
PageIsEmpty(n) == n = 0

EpisodeEntry(item) == Entry("video", "", "episodes", item.page, item.k, "id", "file", "title")

\* article.get('shortTitle'): every second article of a page has none
ShortTitle(item) == IF item.k % 2 = 1 THEN "A" ELSE "NULL"

\* mutant: the entry carries no title
ArticleEntryNoTitle(item) ==
    Entry("url_transparent", "article", "articles", item.page, item.k, "id", "url", "NULL")

ArticleEntry(item) ==
    Entry("url_transparent", "article", "articles", item.page, item.k, "id", "url", ShortTitle(item))

\* PolskieRadioAuditionIE._entries: the head of the episode loop
AuditionEpisodes ==
    /\ pc = "ep" /\ running
    /\ IF ~doc.hasEpisodes
       THEN pc' = "art" /\ i' = FirstPage /\ Continue /\ UNCHANGED <<buf, log>>
       ELSE \/ /\ log' = Append(log, Fetch("episodes", i, FALSE, 0))
               /\ Raise("FetchError")
               /\ UNCHANGED <<i, buf>>
            \/ \E n \in ApiLens(i, EpisodePageSize) :
                 /\ log' = Append(log, Fetch("episodes", i, TRUE, n))
                 /\ Continue
                 /\ IF PageIsEmpty(n)
                    THEN pc' = "art" /\ i' = FirstPage /\ buf' = <<>>
                    ELSE pc' = "ep_items" /\ i' = i /\ buf' = PageItems(i, AllOk(n))
    /\ UNCHANGED <<url, ie, result, doc, seen, pulls, cancelled>>
    /\ UNCHANGED <<base_data, resolver, iteration, server>>

\* mutant: with the last episode of a page, the next page is fetched ahead
AuditionEpisodeItemsPrefetch ==
    /\ pc = "ep_items" /\ running
    /\ IF buf = <<>>
       THEN pc' = "ep" /\ i' = NextPage(i) /\ Continue /\ buf' = buf /\ log' = log
       ELSE /\ Yield(EpisodeEntry(TakeItem(buf).item))
            /\ buf' = TakeItem(buf).rest
            /\ UNCHANGED <<pc, i>>
            /\ log' = IF TakeItem(buf).rest = <<>>
                      THEN Append(log, Fetch("episodes", NextPage(i), TRUE, 0))
                      ELSE log
    /\ UNCHANGED <<url, ie, result, doc, seen, pulls, cancelled>>
    /\ UNCHANGED <<base_data, resolver, iteration, server>>

\* PolskieRadioAuditionIE._entries: the loop over the episodes of a page
AuditionEpisodeItems ==
    /\ pc = "ep_items" /\ running
    /\ IF buf = <<>>
       THEN pc' = "ep" /\ i' = NextPage(i) /\ Continue /\ buf' = buf
       ELSE Yield(EpisodeEntry(TakeItem(buf).item)) /\ buf' = TakeItem(buf).rest /\ UNCHANGED <<pc, i>>
    /\ UNCHANGED <<url, ie, result, doc, seen, log, pulls, cancelled>>
    /\ UNCHANGED <<base_data, resolver, iteration, server>>

\* PolskieRadioAuditionIE._entries: the head of the article loop
AuditionArticles ==
    /\ pc = "art" /\ running
    /\ IF ~doc.hasArticles
       THEN Stop /\ UNCHANGED <<i, buf, log>>
       ELSE \/ /\ log' = Append(log, Fetch("articles", i, FALSE, 0))
               /\ Raise("FetchError")
               /\ UNCHANGED <<i, buf>>
            \/ \E n \in ApiLens(i, ArticlePageSize) :
                 /\ log' = Append(log, Fetch("articles", i, TRUE, n))
                 /\ IF PageIsEmpty(n)
                    THEN Stop /\ UNCHANGED <<i, buf>>
                    ELSE pc' = "art_items" /\ i' = i /\ buf' = PageItems(i, AllOk(n)) /\ Continue
    /\ UNCHANGED <<url, ie, result, doc, seen, pulls, cancelled>>
    /\ UNCHANGED <<base_data, resolver, iteration, server>>

\* PolskieRadioAuditionIE._entries: the loop over the articles of a page
AuditionArticleItems ==
    /\ pc = "art_items" /\ running
    /\ IF buf = <<>>
       THEN pc' = "art" /\ i' = NextPage(i) /\ Continue /\ buf' = buf
       ELSE Yield(ArticleEntry(TakeItem(buf).item)) /\ buf' = TakeItem(buf).rest /\ UNCHANGED <<pc, i>>
    /\ UNCHANGED <<url, ie, result, doc, seen, log, pulls, cancelled>>
    /\ UNCHANGED <<base_data, resolver, iteration, server>>

\* mutant: the entries are handed back to the category handler
CategoryEntryToCategory(item) ==
    Entry("url", "category", "category", item.page, item.k, "entry_id", "href", "title")

\* self.url_result(urljoin(url, href), PolskieRadioLegacyIE, entry_id, title)
CategoryEntry(item) == Entry("url", "legacy", "category", item.page, item.k, "entry_id", "href", "title")

\* PolskieRadioCategoryIE._entries: the loop over the <article> links of a page
CategoryItems ==
    /\ pc = "cat_items" /\ running
    /\ IF buf = <<>>
       THEN pc' = "cat_next" /\ Continue /\ buf' = buf
       ELSE LET t == TakeItem(buf) IN
            /\ buf' = t.rest
            /\ pc' = pc
            /\ IF t.item.ok THEN Yield(CategoryEntry(t.item)) ELSE Continue
    /\ UNCHANGED <<url, ie, result, doc, i, seen, log, pulls, cancelled>>
    /\ UNCHANGED <<base_data, resolver, iteration, server>>

\* mutant: a page without items ends the listing as well
CategoryHasMoreItems(content) == content.hasNext /\ content.items # <<>>

\* `if not mobj: break`: the listing goes on only through a "next" link
CategoryHasMore(content) == content.hasNext

\* PolskieRadioCategoryIE._entries: the "next" link and the download of the next page
CategoryNextPage ==
    /\ pc = "cat_next" /\ running
    /\ IF ~CategoryHasMore(doc)
       THEN Stop /\ UNCHANGED <<doc, i, buf, log>>
       ELSE \/ /\ log' = Append(log, Fetch("category", i, FALSE, 0))
               /\ Raise("FetchError")
               /\ UNCHANGED <<doc, i, buf>>
            \/ \E page \in CategoryPages(i) :
                 /\ log' = Append(log, FetchOf("category", i, TRUE, page.items))
                 /\ doc' = [doc EXCEPT !.items = page.items, !.hasNext = page.hasNext]
                 /\ buf' = PageItems(i, page.items)
                 /\ i' = NextPage(i)
                 /\ pc' = "cat_items"
                 /\ Continue
    /\ UNCHANGED <<url, ie, result, seen, pulls, cancelled>>
    /\ UNCHANGED <<base_data, resolver, iteration, server>>

\* mutant: the quotient plus one instead of the ceiling
PageCountPlusOne(total) == (total \div PodcastPageSize) + 1

\* math.ceil(data['itemCount'] / self._PAGE_SIZE)
PageCount(total) == Ceil(total, PodcastPageSize)

\* mutant: page 0 is downloaded again
GetPageFetchesAlways(page_num) == TRUE

\* get_page: `if page_num`, the page is downloaded, else it is the first response
GetPageFetches(page_num) == page_num # 0

\* mutant: the page after the last one downloaded, a cursor instead of the index
ApiPageCursor(page_num) == Len(SelectSeq(log, LAMBDA f : f.what = "podcast")) + 1

\* get_page: the API page that list page page_num is
ApiPage(page_num) == page_num + 1

\* what the podcast API answers for page index: a page that has been
\* downloaded before is answered as before
ApiAnswers(index) ==
    LET known == {log[j].n : j \in {k \in DOMAIN log :
                     log[k].what = "podcast" /\ log[k].index = index /\ log[k].ok}}
    IN  IF known = {} THEN PageLens(PodcastPageSize) ELSE known

PodcastEntry(item) == Entry("video", "", "podcast", item.page, item.k, "guid", "url", "title")

\* InAdvancePagedList: the next list page, through get_page
PagedListPage ==
    /\ pc = "pl_page" /\ running
    /\ IF i >= PageCount(doc.itemCount)
       THEN Stop /\ UNCHANGED <<i, buf, log>>
       ELSE IF GetPageFetches(i)
       THEN \/ /\ log' = Append(log, Fetch("podcast", ApiPage(i), FALSE, 0))
               /\ Raise("FetchError")
               /\ UNCHANGED <<i, buf>>
            \/ \E n \in ApiAnswers(ApiPage(i)) :
                 /\ log' = Append(log, Fetch("podcast", ApiPage(i), TRUE, n))
                 /\ buf' = PageItems(ApiPage(i), AllOk(n))
                 /\ pc' = "pl_items"
                 /\ Continue
                 /\ i' = i
       ELSE /\ buf' = PageItems(1, doc.items)
            /\ pc' = "pl_items"
            /\ Continue
            /\ UNCHANGED <<i, log>>
    /\ UNCHANGED <<url, ie, result, doc, seen, pulls, cancelled>>
    /\ UNCHANGED <<base_data, resolver, iteration, server>>

\* InAdvancePagedList: the items of the current list page
PagedListItems ==
    /\ pc = "pl_items" /\ running
    /\ IF buf = <<>>
       THEN pc' = "pl_page" /\ i' = i + 1 /\ Continue /\ buf' = buf
       ELSE Yield(PodcastEntry(TakeItem(buf).item)) /\ buf' = TakeItem(buf).rest /\ UNCHANGED <<pc, i>>
    /\ UNCHANGED <<url, ie, result, doc, seen, log, pulls, cancelled>>
    /\ UNCHANGED <<base_data, resolver, iteration, server>>

----------------------------------------------------------------------------
(* Specifications *)

Next ==
    \/ ResolveURL
    \/ LegacyRealExtract
    \/ PolskieRadioRealExtract
    \/ AuditionRealExtract
    \/ CategoryRealExtract
    \/ PodcastListRealExtract
    \/ PlayerRealExtract
    \/ PodcastRealExtract
    \/ RadioKierowcowRealExtract
    \/ Pull
    \/ Cancel
    \/ ExtractWebpagePlayerEntries
    \/ ArticleListItems
    \/ AuditionEpisodes
    \/ AuditionEpisodeItems
    \/ AuditionArticles
    \/ AuditionArticleItems
    \/ CategoryItems
    \/ CategoryNextPage
    \/ PagedListPage
    \/ PagedListItems

Spec == Init /\ [][Next]_vars

\* the registry alone, over every URL of the model
NextDispatch == ResolveURL

SpecDispatch == InitDispatch /\ [][NextDispatch]_vars

----------------------------------------------------------------------------
(* The result resolver: redirects and deferred references are followed *)

\* resolve(url) with a handler hint: the hinted handler, if it accepts the URL
ResolveHint(u, key) == IF Suitable(key, u) THEN key ELSE "none"

\* compat_urlparse.urljoin(url, href) for the href of an <article> link,
\* /\d+/\d+/Artykul/(\d+)...
Urljoin(base, href) == [base EXCEPT !.path = href]

\* article['url'] of the articles API: an article of the redesigned site, or anything else
ArticleUrls == {MkURL("jedynka", "polskieradio.pl", <<"artykul", "d,s">>), MkURL("", "example.com", <<"d">>)}

\* the URLs an entry may stand for
EntryTargets(e) ==
    IF e.stream = "category" THEN {Urljoin(url, <<"d", "d", "Artykul", "d,s">>)}
    ELSE ArticleUrls

\* the seed fields of a url_transparent entry
SeedOf(e) ==
    IF e.type = "url_transparent"
    THEN [set |-> TRUE, title |-> e.title, applied |-> FALSE]
    ELSE NoSeed

\* the handler key starts on target: a new extraction, one handler further
Descend(target, key, s) ==
    LET h == ResolveHint(target, key) IN
    /\ url' = target
    /\ ie' = h
    /\ pc' = IF h = "none" THEN "failed" ELSE "extract"
    /\ err' = IF h = "none" THEN "NoMatchingHandler" ELSE "none"
    /\ chain' = IF h = "none" THEN chain ELSE Append(chain, h)
    /\ seed' = s
    /\ result' = NoResult
    /\ doc' = NoDoc
    /\ i' = 0
    /\ buf' = <<>>
    /\ seen' = {}
    /\ out' = <<>>
    /\ log' = <<>>
    /\ running' = FALSE
    /\ pulls' = 0
    /\ cancelled' = FALSE
    /\ base_data' = NoBase
    /\ UNCHANGED <<iteration, server>>

\* a handler returned url_result(url, ie): the named handler extracts that URL
FollowRedirect ==
    /\ pc = "returned" /\ result.type = "url"
    /\ Descend(result.url, result.ie_key, NoSeed)

\* the entry just delivered is a reference: it is resolved before the next pull
FollowEntry ==
    /\ Suspended
    /\ out # <<>>
    /\ out[Len(out)].type \in {"url", "url_transparent"}
    /\ \E target \in EntryTargets(out[Len(out)]) :
         Descend(target, out[Len(out)].ie_key, SeedOf(out[Len(out)]))

\* the seed is laid over what the target produced: a field the target left
\* unset takes the seed's value
Overlay(seedv, produced) == IF produced # "NULL" THEN produced ELSE seedv

\* the target of a url_transparent entry has returned: its record gets the seed fields
ApplySeed ==
    /\ seed.set /\ ~seed.applied
    /\ result.type \in {"playlist", "video"}
    /\ result' = [result EXCEPT !.title = Overlay(seed.title, result.title)]
    /\ seed' = [seed EXCEPT !.applied = TRUE]
    /\ UNCHANGED <<url, ie, pc, doc, i, buf, seen, out, log, running, pulls, cancelled, err>>
    /\ UNCHANGED <<base_data, chain, iteration, server>>

NextChain ==
    \/ Next
    \/ FollowRedirect
    \/ FollowEntry
    \/ ApplySeed

SpecChain == Init /\ [][NextChain]_vars

----------------------------------------------------------------------------
(* A second iteration of the entries *)

\* the handlers whose entries are a generator object
Generators == {"legacy", "kierowcow", "audition", "category"}

\* the consumer, having exhausted the entries, iterates them again from the
\* start: the paged list calls get_page(0) again, the article's list is walked
\* again, an exhausted generator has nothing more to give
Restart ==
    /\ result.type = "playlist" /\ pc = "done" /\ passes = 1
    /\ passes' = 2
    /\ first' = out
    /\ out' = <<>>
    /\ CASE ie = "podcastlist" -> pc' = "pl_page" /\ i' = 0 /\ buf' = <<>>
         [] ie = "article" -> pc' = "list" /\ i' = 0 /\ buf' = ArticleEntries(doc.attachments)
         [] OTHER -> UNCHANGED <<pc, i, buf>>
    /\ UNCHANGED <<url, ie, result, doc, seen, log, running, pulls, cancelled, err>>
    /\ UNCHANGED <<base_data, resolver, server>>

NextRestart == Next \/ Restart

SpecRestart == Init /\ [][NextRestart]_vars


----------------------------------------------------------------------------
(* The web front ends: src/server.py ("server") and src/WHISPER/server.py ("whisper") *)

Requests == 1..MaxRequests

\* what a request carries: result_1 an uploaded file or none; result_2 the
\* form's url: empty, a youtu.be url, a vimeo.com url (with or without
\* streams), or any other
Inputs(route) ==
    IF route = "result_1" THEN {"file", "nofile"}
    ELSE {"", "youtu.be", "vimeo.com", "vimeo.com, no streams", "other"}

NewRequest(route, input) ==
    [route |-> route, input |-> input, pc |-> "start", wrote |-> "none", heard |-> 0,
     status |-> "running"]

\* file.save(...)
SavePath(v) == IF v = "server" THEN "./input/CHATGPT_.mp4" ELSE "CHATGPT_.mp3"

\* ydl_opts['outtmpl']
YoutubePath(v) == IF v = "server" THEN "./input/CHATGPT_.mp4" ELSE "CHATGPT_.mp3"

\* best_stream.download(...)
VimeoPath(v) == IF v = "server" THEN "./input/CHATGPT_.mp4" ELSE "CHATGPT_.mp4"

\* model.transcribe(...)
TranscribePath(v, route) == IF v = "server" THEN "./input/CHATGPT_.mp4" ELSE "CHATGPT_.mp4"

\* os.remove(...)
RemovePath(v, route) ==
    IF v = "server" THEN "./input/CHATGPT_.mp4"
    ELSE IF route = "result_1" THEN "CHATGPT_.mp3" ELSE "CHATGPT_.mp4"

InitServer ==
    /\ url = MkURL("", "example.com", <<>>)
    /\ Idle
    /\ variant \in {"server", "whisper"}
    /\ disk = [p \in TempPaths |-> 0]
    /\ req \in [Requests -> UNION {{NewRequest(rt, inp) : inp \in Inputs(rt)} :
                                    rt \in {"result_1", "result_2"}}]

\* the request goes on to the transcription
Goes(r, path) == req' = [req EXCEPT ![r].pc = "transcribe", ![r].wrote = path]

\* the request ends: a page is rendered, a redirect is sent, or an exception escapes
Ends(r, status) == req' = [req EXCEPT ![r].pc = "done", ![r].status = status]

\* result_1 up to the transcription: the upload is saved, if there is one
SaveUpload(r) ==
    /\ req[r].pc = "start" /\ req[r].route = "result_1"
    /\ IF req[r].input = "file"
       THEN /\ disk' = [disk EXCEPT ![SavePath(variant)] = r]
            /\ Goes(r, SavePath(variant))
       ELSE /\ disk' = disk
            /\ IF variant = "server" THEN Ends(r, "redirected") ELSE Goes(r, "none")
    /\ UNCHANGED <<url, ie, pc, result, doc, i, buf, seen, out, log, running, pulls, cancelled, err>>
    /\ UNCHANGED <<base_data, resolver, iteration, variant>>

\* a download to path: it fails, or it writes the file; over an existing file
\* the downloader may also keep what is there
Download(r, path) ==
    \/ disk' = disk /\ Ends(r, "error")
    \/ disk' = [disk EXCEPT ![path] = r] /\ Goes(r, path)
    \/ disk[path] # 0 /\ disk' = disk /\ Goes(r, "none")

\* result_2 up to the transcription: the media of the url is downloaded
DownloadURL(r) ==
    /\ req[r].pc = "start" /\ req[r].route = "result_2"
    /\ CASE req[r].input = "" -> disk' = disk /\ Goes(r, "none")
         [] req[r].input = "youtu.be" -> Download(r, YoutubePath(variant))
         [] req[r].input = "vimeo.com" -> Download(r, VimeoPath(variant))
         [] req[r].input = "vimeo.com, no streams" ->
                /\ disk' = disk
                /\ IF variant = "server" THEN Ends(r, "redirected") ELSE Ends(r, "error")
         [] OTHER -> disk' = disk /\ Ends(r, "redirected")
    /\ UNCHANGED <<url, ie, pc, result, doc, i, buf, seen, out, log, running, pulls, cancelled, err>>
    /\ UNCHANGED <<base_data, resolver, iteration, variant>>

\* model.transcribe(path): the file is read, or is not there
Transcribe(r) ==
    /\ req[r].pc = "transcribe"
    /\ LET path == TranscribePath(variant, req[r].route) IN
       IF disk[path] = 0
       THEN Ends(r, "error")
       ELSE req' = [req EXCEPT ![r].pc = "remove", ![r].heard = disk[path]]
    /\ disk' = disk
    /\ UNCHANGED <<url, ie, pc, result, doc, i, buf, seen, out, log, running, pulls, cancelled, err>>
    /\ UNCHANGED <<base_data, resolver, iteration, variant>>

\* os.remove(path) and the result page
Remove(r) ==
    /\ req[r].pc = "remove"
    /\ LET path == RemovePath(variant, req[r].route) IN
       IF disk[path] = 0
       THEN disk' = disk /\ Ends(r, "error")
       ELSE disk' = [disk EXCEPT ![path] = 0] /\ Ends(r, "rendered")
    /\ UNCHANGED <<url, ie, pc, result, doc, i, buf, seen, out, log, running, pulls, cancelled, err>>
    /\ UNCHANGED <<base_data, resolver, iteration, variant>>

\* the requests are handled by threads of one process, in any interleaving
NextServer ==
    \E r \in Requests :
        \/ SaveUpload(r)
        \/ DownloadURL(r)
        \/ Transcribe(r)
        \/ Remove(r)

SpecServer == InitServer /\ [][NextServer]_vars

----------------------------------------------------------------------------
(* Vocabulary of the properties *)

\* the fetches of listing pages (API pages, category pages), in order
PageFetches == SelectSeq(log, LAMBDA f : f.what # "webpage")

\* the fetches of one stream
StreamLog(w) == SelectSeq(log, LAMBDA f : f.what = w)

RECURSIVE SumItems(_)
SumItems(fs) == IF fs = <<>> THEN 0 ELSE fs[1].n + SumItems(Tail(fs))

\* where an entry's source item stood
Key(e) == <<e.stream, e.page, e.k>>

Keys(es) == [j \in DOMAIN es |-> Key(es[j])]

\* the items of a fetched page that can be yielded, in the page's order
FetchKeys(f) ==
    LET ks == SelectSeq([k \in 1..Len(f.oks) |-> k], LAMBDA k : f.oks[k])
    IN  [j \in 1..Len(ks) |-> <<f.what, f.index, ks[j]>>]

\* the items of the fetched pages, pages in the order of their fetches
RECURSIVE ExpectedKeys(_)
ExpectedKeys(fs) == IF fs = <<>> THEN <<>> ELSE FetchKeys(fs[1]) \o ExpectedKeys(Tail(fs))

IsPrefix(a, b) == Len(a) <= Len(b) /\ a = SubSeq(b, 1, Len(a))

Front(s) == SubSeq(s, 1, Len(s) - 1)

Last(s) == s[Len(s)]

\* the handlers whose entries come page by page
Paged == ie \in {"audition", "category", "podcastlist"} /\ result.type = "playlist"

----------------------------------------------------------------------------
(* C1: open-ended pagination of the audition handler, one sub-stream *)

OneStream == ie = "audition" /\ result.type = "playlist" /\ doc.hasEpisodes # doc.hasArticles

TheStream == IF doc.hasEpisodes THEN "episodes" ELSE "articles"

ThePageSize == IF doc.hasEpisodes THEN EpisodePageSize ELSE ArticlePageSize

\* C1: with one sub-stream enabled, the page index of the fetches starts at 1
\* and grows by exactly 1 per fetch, only the last fetch may have returned an
\* empty page (no fetch follows the empty page), and once the empty page has
\* come the sequence is over and has yielded the items of all pages before it:
\* N * page_size items after N full pages.
C1_OpenEndedPagination ==
    OneStream =>
        LET F == StreamLog(TheStream) IN
        /\ PageFetches = F
        /\ \A j \in DOMAIN F : F[j].index = j
        /\ \A j \in DOMAIN F : j < Len(F) => F[j].ok /\ F[j].n > 0
        /\ (F # <<>> /\ Last(F).ok /\ Last(F).n = 0) =>
              /\ pc = "done" \/ (pc = "art" /\ running /\ ~doc.hasArticles)
              /\ Keys(out) = ExpectedKeys(F)
              /\ Len(out) = SumItems(F)
              /\ (\A j \in 1..(Len(F) - 1) : F[j].n = ThePageSize)
                    => Len(out) = (Len(F) - 1) * ThePageSize

\* two full episode pages, then the empty page: 20 entries and the end
C1_Witness ==
    /\ OneStream /\ doc.hasEpisodes /\ pc = "done"
    /\ Len(StreamLog("episodes")) = 3
    /\ StreamLog("episodes")[1].n = EpisodePageSize
    /\ StreamLog("episodes")[2].n = EpisodePageSize
    /\ StreamLog("episodes")[3].n = 0
    /\ Len(out) = 2 * EpisodePageSize

----------------------------------------------------------------------------
(* C2: cancellation *)

\* C2: a consumer that has pulled one entry, of a first page that holds
\* several (10), and then abandons the sequence has caused exactly one page
\* fetch; nothing is running and nothing is left to happen.
C2_CancelAfterFirstItem ==
    (/\ Paged /\ cancelled /\ pulls = 1 /\ Len(out) = 1
     /\ PageFetches # <<>> /\ PageFetches[1].ok /\ PageFetches[1].n >= 2)
    => /\ Len(PageFetches) = 1
       /\ ~running
       /\ ~ENABLED Next

C2_Witness ==
    /\ ie = "podcastlist" /\ cancelled /\ pulls = 1 /\ Len(out) = 1
    /\ PageFetches[1].n = PodcastPageSize
    /\ Len(PageFetches) = 1

----------------------------------------------------------------------------
(* C3: a failing page fetch *)

\* C3: when a page fetch of an entry sequence fails, the error is raised in
\* the pull that made the fetch, that fetch is the last one and the only one
\* that failed (no retry), every item of the pages fetched before it has been
\* delivered, in order, and there is no error while no fetch has failed.
C3_ErrorAtConsumption ==
    Paged =>
        LET P == PageFetches IN
        /\ (\E j \in DOMAIN P : ~P[j].ok) <=> (err = "FetchError")
        /\ err # "none" => err = "FetchError" /\ pc = "raised" /\ ~running
        /\ err = "FetchError" =>
              /\ \A j \in DOMAIN P : P[j].ok <=> j < Len(P)
              /\ Last(P).pull = pulls
              /\ pulls >= 1
              /\ Last(P).got = Len(out)
              /\ Keys(out) = ExpectedKeys(Front(P))
              /\ ~ENABLED Next

\* the second episode page fails after the ten entries of the first
C3_Witness ==
    /\ ie = "audition" /\ err = "FetchError" /\ pc = "raised"
    /\ Len(PageFetches) = 2
    /\ PageFetches[1].n = EpisodePageSize
    /\ Len(out) = EpisodePageSize
    /\ pulls = EpisodePageSize + 1

----------------------------------------------------------------------------
(* C4: order of the entries *)

\* C4: the entries delivered are a prefix of the items of the fetched pages,
\* items in page order and pages in the order of their fetches, whose page
\* index only grows within a stream, and at the end of the sequence all of
\* them have been delivered (a podcast list that declares itemCount 0 emits no
\* page at all); the article handler delivers the audio attachments, in the
\* order of the attachments.
C4_SourceOrder ==
    /\ Paged =>
          /\ IsPrefix(Keys(out), ExpectedKeys(PageFetches))
          /\ \A a, b \in DOMAIN PageFetches :
                (a < b /\ PageFetches[a].what = PageFetches[b].what)
                    => PageFetches[a].index < PageFetches[b].index
          /\ (pc = "done" /\ ~(ie = "podcastlist" /\ doc.itemCount = 0))
                => Keys(out) = ExpectedKeys(PageFetches)
    /\ (ie = "article" /\ result.type = "playlist") =>
          /\ \A a, b \in DOMAIN out : a < b => out[a].k < out[b].k
          /\ \A a \in DOMAIN out : IsAudio(doc.attachments[out[a].k])
          /\ \A k \in DOMAIN doc.attachments :
                (IsAudio(doc.attachments[k]) /\ (pc = "done" \/ (out # <<>> /\ k < Last(out).k)))
                    => \E a \in DOMAIN out : out[a].k = k

\* audio, video, audio: the entries are attachments 1 and 3, in that order
C4_Witness ==
    /\ ie = "article" /\ pc = "done"
    /\ Len(doc.attachments) = 3
    /\ ~IsAudio(doc.attachments[2])
    /\ Len(out) = 2 /\ out[1].k = 1 /\ out[2].k = 3

----------------------------------------------------------------------------
(* C5: deduplication of the stream URLs *)

PlayerEntries == ie = "legacy" /\ result.type = "playlist"

\* a media object that passes the 'file' and 'desc' test
ValidMedia(m) == m.parsed /\ ~Falsy(m.file) /\ ~Falsy(m.desc)

\* the first media object of the document that is valid and has stream URL u
FirstWithUrl(u) ==
    CHOOSE k \in DOMAIN doc.blocks :
        /\ ValidMedia(doc.blocks[k]) /\ ProtoRelativeUrl(doc.blocks[k].file) = u
        /\ \A m \in 1..(k - 1) :
              ~(ValidMedia(doc.blocks[m]) /\ ProtoRelativeUrl(doc.blocks[m].file) = u)

\* C5: no two yielded entries have the same stream URL; each entry is the
\* first valid media object of the document with its normalised URL; and
\* every valid media object the generator has passed has exactly one entry with
\* its normalised URL, however often that URL occurs.
C5_Deduplication ==
    PlayerEntries =>
        /\ \A a, b \in DOMAIN out : a # b => out[a].url # out[b].url
        /\ \A a \in DOMAIN out :
              /\ \E k \in DOMAIN doc.blocks :
                    ValidMedia(doc.blocks[k]) /\ ProtoRelativeUrl(doc.blocks[k].file) = out[a].url
              /\ out[a].k = FirstWithUrl(out[a].url)
              /\ out[a].id = Str(doc.blocks[out[a].k].id)
        /\ \A k \in 1..(i - 1) :
              ValidMedia(doc.blocks[k]) =>
                  Cardinality({a \in DOMAIN out : out[a].url = ProtoRelativeUrl(doc.blocks[k].file)}) = 1

\* the same stream, once protocol-relative and once absolute: one entry, the first
C5_Witness ==
    /\ PlayerEntries /\ pc = "done"
    /\ Len(doc.blocks) = 2
    /\ ValidMedia(doc.blocks[1]) /\ ValidMedia(doc.blocks[2])
    /\ doc.blocks[1].file = "https://static.prsa.pl/a.mp3"
    /\ doc.blocks[2].file = "//static.prsa.pl/a.mp3"
    /\ doc.blocks[1].id = 1 /\ doc.blocks[2].id = 2
    /\ Len(out) = 1 /\ out[1].id = "1"

----------------------------------------------------------------------------
(* C6: the legacy article handler before the legacy category handler *)

BothPatterns(u) == LegacyValidURL(u) /\ CategoryValidURL(u)

\* C6: no URL is accepted by both handlers; a URL that matches both patterns
\* is refused by the category handler, accepted by the legacy article handler
\* and resolved to the legacy article handler in every registration order.
C6_Precedence ==
    /\ ~(LegacySuitable(url) /\ CategorySuitable(url))
    /\ BothPatterns(url) =>
          /\ ~CategorySuitable(url)
          /\ LegacySuitable(url)
          /\ \A order \in Orders : Resolve(url, order) = "legacy"
          /\ pc # "resolve" => ie = "legacy"

C6_Witness == BothPatterns(url) /\ pc = "extract" /\ ie = "legacy"

----------------------------------------------------------------------------
(* C7: redirect to the handler of the redesigned site *)

Redirecting == ie \in {"legacy", "category"} /\ result.type # "none"

\* the handler of the redesigned site that the running handler defers to
ModernKey == IF ie = "legacy" THEN "article" ELSE "audition"

\* C7: the legacy handlers return after exactly one document fetch; they
\* return a redirect exactly when that fetch succeeded and its final URL is
\* accepted by the modern handler; the redirect carries the final URL and the
\* modern handler, and comes without error whatever the document holds.
C7_MidExtractionRedirect ==
    Redirecting =>
        /\ Len(SelectSeq(log, LAMBDA f : f.pull = 0)) = 1
        /\ (result.type = "url") <=> (log[1].ok /\ Suitable(ModernKey, doc.finalUrl))
        /\ result.type = "url" =>
              /\ result.url = doc.finalUrl
              /\ result.ie_key = ModernKey
              /\ err = "none"
              /\ out = <<>>
              /\ Len(log) = 1
              /\ ~ENABLED Next

\* a page without og:title, which could not be parsed, is redirected all the same
C7_Witness ==
    /\ ie = "legacy" /\ result.type = "url" /\ result.ie_key = "article"
    /\ ~doc.hasTitle /\ ~doc.hasContent /\ ~doc.hasSource
    /\ err = "none"

----------------------------------------------------------------------------
(* C8: known-total pagination of the podcast list *)

PodcastList == ie = "podcastlist" /\ result.type = "playlist"

\* the least number of pages of 10 that hold total items
CeilTen(total) == CHOOSE c \in 0..total : c * 10 >= total /\ \A b \in 0..(c - 1) : b * 10 < total

\* C8: API pages are requested in the order 1, 2, ..., each once; page 1 by
\* _real_extract and every other during a pull; list page 0 is the first
\* response (no fetch), list page k >= 1 is API page k + 1; no page after
\* ceil(itemCount / 10) is requested; at the end ceil(itemCount / 10) list
\* pages have been emitted.
C8_KnownTotalPagination ==
    PodcastList =>
        LET P == StreamLog("podcast")
            c == CeilTen(doc.itemCount)
        IN  /\ \A j \in DOMAIN P : P[j].index = j
            /\ P[1].pull = 0
            /\ \A j \in 2..Len(P) : P[j].pull >= 1 /\ P[j].index <= c
            /\ pc = "pl_items" =>
                  /\ i < c
                  /\ Last(P).index = i + 1
                  /\ Len(P) = i + 1
                  /\ i = 0 => Last(P).pull = 0
            /\ pc = "done" =>
                  /\ i = c
                  /\ Len(P) = IF c = 0 THEN 1 ELSE c

\* 11 items declared: ten on the first page and one on the second, two pages
C8_Witness ==
    /\ PodcastList /\ pc = "done" /\ doc.itemCount = 11
    /\ Len(StreamLog("podcast")) = 2
    /\ StreamLog("podcast")[2].n = 1
    /\ Len(out) = 11

----------------------------------------------------------------------------
(* C9: pull-based laziness *)

\* every item of the pages fetched before fetch j had been delivered by then
DeliveredBefore(P, j) == P[j].got = Len(ExpectedKeys(SubSeq(P, 1, j - 1)))

\* C9 as stated: every page fetch happens during a pull, the pull for the
\* next entry, after all items of the pages before it have been delivered.
C9_EveryFetchByPull ==
    Paged =>
        \A j \in DOMAIN PageFetches :
            /\ PageFetches[j].pull >= 1
            /\ PageFetches[j].pull = PageFetches[j].got + 1
            /\ DeliveredBefore(PageFetches, j)

\* C9: the first page of the podcast list and of the category listing is
\* fetched by _real_extract, before any pull; every other page fetch happens
\* during a pull, the pull for the next entry, after all items of the pages
\* before it have been delivered; between pulls nothing is fetched.
C9_PullBased ==
    Paged =>
        /\ \A j \in DOMAIN PageFetches :
              IF PageFetches[j].pull = 0
              THEN /\ j = 1
                   /\ PageFetches[j].index = 1
                   /\ ie \in {"podcastlist", "category"}
              ELSE /\ PageFetches[j].pull = PageFetches[j].got + 1
                   /\ DeliveredBefore(PageFetches, j)
        /\ ie \in {"podcastlist", "category"} => PageFetches[1].pull = 0
        /\ pulls = 0 => Len(PageFetches) = (IF ie = "audition" THEN 0 ELSE 1)
        /\ ~running => Len(out) >= pulls - 1

\* the second episode page is fetched in the eleventh pull, after ten entries
C9_Witness ==
    /\ ie = "audition" /\ Len(PageFetches) = 2
    /\ PageFetches[1].pull = 1 /\ PageFetches[1].n = EpisodePageSize
    /\ PageFetches[2].pull = EpisodePageSize + 1
    /\ PageFetches[2].got = EpisodePageSize

----------------------------------------------------------------------------
(* C10: media objects without 'file' or 'desc' *)

\* media object k is valid and no valid media object before it has its URL
Kept(k) ==
    /\ ValidMedia(doc.blocks[k])
    /\ \A m \in 1..(k - 1) :
          ~(/\ ValidMedia(doc.blocks[m])
            /\ ProtoRelativeUrl(doc.blocks[m].file) = ProtoRelativeUrl(doc.blocks[k].file))

\* C10: of the media objects the generator has passed, the entries are those
\* that have 'file' and 'desc' (the first of each stream URL), in document
\* order; an object without 'file' or 'desc' has no entry and raises nothing:
\* an error comes only from an unparsable object or from one without 'id'.
C10_DroppedSilently ==
    PlayerEntries =>
        /\ \A a, b \in DOMAIN out : a < b => out[a].k < out[b].k
        /\ {out[a].k : a \in DOMAIN out} = {k \in 1..(i - 1) : Kept(k)}
        /\ i <= Len(doc.blocks) + 1
        /\ pc = "done" => i = Len(doc.blocks) + 1 /\ err = "none"
        /\ err # "none" =>
              /\ pc = "raised"
              /\ i \in DOMAIN doc.blocks
              /\ ~doc.blocks[i].parsed \/ (ValidMedia(doc.blocks[i]) /\ ~doc.blocks[i].hasId)

\* a media object without 'desc' between two valid ones: two entries, no error
C10_Witness ==
    /\ PlayerEntries /\ pc = "done" /\ err = "none"
    /\ Len(doc.blocks) = 3
    /\ ValidMedia(doc.blocks[1]) /\ ValidMedia(doc.blocks[3])
    /\ doc.blocks[2].parsed /\ doc.blocks[2].desc = "NULL" /\ ~Falsy(doc.blocks[2].file)
    /\ Len(out) = 2 /\ out[1].k = 1 /\ out[2].k = 3

----------------------------------------------------------------------------
(* C11: the lookups of the live-player handler *)

PlayerDone == ie = "player" /\ pc \in {"returned", "failed"}

\* the channel list was downloaded and parsed
HasChannelList == PlayerDone /\ doc.hasData

\* some entry of the channel list has the matched id as its url
ChannelExists == \E k \in DOMAIN doc.channels : doc.channels[k].url = url.path[2]

\* the first such entry
TheChannel ==
    doc.channels[CHOOSE k \in DOMAIN doc.channels :
        /\ doc.channels[k].url = url.path[2]
        /\ \A m \in 1..(k - 1) : doc.channels[m].url # url.path[2]]

\* the name the station is looked up by: streamName, or name when streamName
\* is absent (or empty)
WantedName ==
    IF TheChannel.streamName \in {"NULL", ""} THEN TheChannel.name ELSE TheChannel.streamName

StationsFetched == \E j \in DOMAIN log : log[j].what = "stations"

\* C11: when no entry of the channel list has the matched id as its url, the
\* extraction fails with an ExtractorError and the stations API is not
\* fetched; when the channel is found and the station list has no station
\* whose Name is the channel's streamName (its name when streamName is absent
\* or empty), the extraction fails with an ExtractorError; a media record is
\* returned only when both were found.
C11_LookupFailures ==
    /\ (HasChannelList /\ ~ChannelExists) =>
          /\ err = "ExtractorError" /\ pc = "failed"
          /\ ~StationsFetched
          /\ result.type = "error"
    /\ (HasChannelList /\ ChannelExists /\ StationsFetched /\ Last(log).ok
         /\ ~\E k \in DOMAIN doc.stations : doc.stations[k].Name = WantedName) =>
          /\ err = "ExtractorError" /\ pc = "failed"
          /\ result.type = "error"
    /\ (PlayerDone /\ result.type = "video") =>
          /\ ChannelExists
          /\ \E k \in DOMAIN doc.stations : doc.stations[k].Name = WantedName
          /\ err = "none"
    /\ (ie = "player" /\ StationsFetched) => HasChannelList /\ ChannelExists

\* the channel is there, its station is not: an error after the second fetch
C11_Witness ==
    /\ HasChannelList /\ ChannelExists /\ StationsFetched /\ Last(log).ok
    /\ TheChannel.streamName = "Trojka"
    /\ Len(doc.stations) = 2
    /\ \A k \in DOMAIN doc.stations : doc.stations[k].Name = "Dwojka"
    /\ err = "ExtractorError" /\ result.type = "error"

----------------------------------------------------------------------------
(* C12: an empty result is not an error *)

\* an audition page that declares neither episodes nor articles
EmptyAudition == ie = "audition" /\ doc.hasData /\ ~doc.hasEpisodes /\ ~doc.hasArticles

\* a podcast list whose first response declares itemCount 0
EmptyPodcastList == ie = "podcastlist" /\ log # <<>> /\ log[1].ok /\ doc.itemCount = 0

\* an article page with a title and without an audio attachment
EmptyArticle ==
    /\ ie = "article" /\ doc.hasData /\ doc.hasTitle
    /\ \A k \in DOMAIN doc.attachments : doc.attachments[k].fileType # "Audio"

\* C12: in each of the three cases the handler returns a playlist, no entry
\* is ever delivered, no error is raised, and the first pull ends the
\* sequence; the audition makes no API page fetch at all and the podcast list
\* none after its first response.
C12_EmptyResult ==
    (EmptyAudition \/ EmptyPodcastList \/ EmptyArticle) =>
        /\ result.type = "playlist"
        /\ out = <<>>
        /\ err = "none"
        /\ pc # "raised"
        /\ (pulls >= 1 /\ ~running) => pc = "done"
        /\ EmptyAudition => PageFetches = <<>>
        /\ EmptyPodcastList => Len(PageFetches) = 1 /\ PageFetches[1].pull = 0
        /\ EmptyArticle => Len(log) = 1

\* itemCount 0 although the first response carries items: still nothing
C12_Witness ==
    /\ EmptyPodcastList /\ Len(doc.items) = PodcastPageSize
    /\ pc = "done" /\ pulls = 1 /\ out = <<>> /\ err = "none"

----------------------------------------------------------------------------
(* C13: two requests of the web front end at the same time *)

\* the request has written its media and has not yet removed it
Using(r) == req[r].wrote # "none" /\ req[r].pc \in {"transcribe", "remove"}

\* C13: in src/server.py, whatever the interleaving, a request transcribes
\* only the media that it saved or downloaded itself, and the file a request
\* has written holds that request's media until the request has removed it
\* (no other request overwrites it or removes it).
C13_RequestsIsolated ==
    variant = "server" =>
        \A r \in Requests :
            /\ req[r].heard # 0 => req[r].heard = r
            /\ Using(r) => disk[req[r].wrote] = r

----------------------------------------------------------------------------
(* C14: the seed fields of a url_transparent entry *)

\* the title the target handler produced by itself
ProducedTitle == IF doc.title = " B" THEN "B" ELSE "NULL"

----------------------------------------------------------------------------
(* C18: the references between the handlers *)

\* more than a page or a list of attachments holds
PageWeight == EpisodePageSize + PodcastPageSize + MaxAttachments

\* more than the page indexes weigh
FetchWeight == 2 * PageWeight * (MaxPages + 3)

\* more than the work of one handler
LevelWeight == FetchWeight * (2 * MaxPages + MaxItemCount + 10)

\* category -> audition or legacy article; legacy article -> modern article;
\* audition -> modern article
Edges == {<<"category", "audition">>, <<"category", "legacy">>, <<"legacy", "article">>,
          <<"audition", "article">>}

\* the resolution is over: nothing is left to extract, pull or follow
Resolved ==
    \/ pc \in {"failed", "done", "raised"}
    \/ cancelled
    \/ pc = "returned" /\ result.type = "video"

\* the position inside a handler; the loop over a page's items stands after
\* the head of its loop by more than a page can hold
PcOrder ==
    CASE pc \in {"ep_items", "pl_items"} -> PageWeight
      [] pc = "art" -> PageWeight + 1
      [] pc = "art_items" -> 2 * PageWeight + 1
      [] pc = "cat_next" -> 1
      [] OTHER -> 0

\* how far the running handler has come
Work ==
    FetchWeight * Len(log) + 2 * PageWeight * i + PcOrder + 2 * Len(out) + pulls - Len(buf)
    + (IF cancelled THEN 1 ELSE 0) + (IF seed.applied THEN 1 ELSE 0)

\* before the handler is chosen, before it extracts, while it extracts, after
Stage ==
    CASE pc = "resolve" -> 0
      [] pc = "extract" -> 1
      [] pc \in {"failed", "done", "raised"} -> 3
      [] OTHER -> 2

\* how far the resolution has come: handlers gone through, then stage, then work
Clock == (4 * Len(chain) + Stage) * LevelWeight + Work

\* the handlers and their references, as a state predicate
ReferenceGraph ==
    /\ result.type = "url" => <<ie, result.ie_key>> \in Edges
    /\ \A a \in DOMAIN out :
          out[a].type \in {"url", "url_transparent"} => <<ie, out[a].ie_key>> \in Edges
    /\ Len(chain) <= 3
    /\ \A a, b \in DOMAIN chain : a # b => chain[a] # chain[b]
    /\ \A j \in 1..(Len(chain) - 1) : <<chain[j], chain[j + 1]>> \in Edges
    /\ (ie # "none" /\ chain # <<>>) => chain[Len(chain)] = ie
    /\ Resolved \/ ENABLED NextChain
    /\ Clock <= 16 * LevelWeight

\* C18: a redirect or a reference entry goes from a handler only to a
\* handler the graph names, so the modern article, player, podcast and
\* radiokierowcow handlers refer to no handler; the handlers a resolution has
\* gone through are pairwise different, follow the edges of the graph and are
\* at most 3; a resolution that is not over can always take a step, and every
\* step advances a clock that is bounded: the resolution of a finite listing
\* terminates.
C18_AcyclicReferences == []ReferenceGraph /\ [][Clock' > Clock]_vars

\* category listing -> audition (redirect) -> modern article (deferred reference)
C18_Witness ==
    /\ chain = <<"category", "audition", "article">>
    /\ pc = "done" /\ result.type = "playlist"

----------------------------------------------------------------------------
(* C15: the two sub-streams of the audition handler *)

Audition == ie = "audition" /\ result.type = "playlist"

\* C15: the episode endpoint is fetched only when the page declares
\* episodes, the article endpoint only when it declares articles; every
\* episode fetch comes before every article fetch and every episode entry
\* before every article entry; with both declared the first article fetch
\* comes after the episode stream's empty page, when all episodes have been
\* delivered; both page indexes start at 1 and grow by 1; at the end each
\* declared stream has been fetched and the entries are as many as the items
\* of both streams together.
C15_MergedStreams ==
    Audition =>
        LET E == StreamLog("episodes")
            A == StreamLog("articles")
        IN  /\ E # <<>> => doc.hasEpisodes
            /\ A # <<>> => doc.hasArticles
            /\ PageFetches = E \o A
            /\ \A j \in DOMAIN E : E[j].index = j
            /\ \A j \in DOMAIN A : A[j].index = j
            /\ \A a, b \in DOMAIN out :
                  (out[a].stream = "articles" /\ out[b].stream = "episodes") => b < a
            /\ (A # <<>> /\ doc.hasEpisodes) =>
                  /\ E # <<>> /\ Last(E).ok /\ Last(E).n = 0
                  /\ A[1].got = SumItems(E)
                  /\ A[1].index = FirstPage
            /\ pc = "done" =>
                  /\ doc.hasEpisodes => E # <<>>
                  /\ doc.hasArticles => A # <<>>
                  /\ Len(out) = SumItems(E) + SumItems(A)
                  /\ Keys(out) = ExpectedKeys(E) \o ExpectedKeys(A)

\* ten episodes, the empty episode page, nine articles, the empty article page
C15_Witness ==
    /\ Audition /\ doc.hasEpisodes /\ doc.hasArticles /\ pc = "done"
    /\ Len(StreamLog("episodes")) = 2 /\ StreamLog("episodes")[1].n = EpisodePageSize
    /\ Len(StreamLog("articles")) = 2 /\ StreamLog("articles")[1].n = ArticlePageSize
    /\ Len(out) = EpisodePageSize + ArticlePageSize
    /\ out[EpisodePageSize].stream = "episodes"
    /\ out[EpisodePageSize + 1].stream = "articles"

----------------------------------------------------------------------------
(* C16: where the legacy category listing stops *)

CategoryList == ie = "category" /\ result.type = "playlist"

CategoryLog == StreamLog("category")

\* C16 (as stated): once a listing page with zero article entries has been
\* processed, no further page is fetched: a page without entries is the last
\* one of the log.
C16_StopsAtEmptyPage ==
    CategoryList =>
        \A j \in DOMAIN CategoryLog :
            (CategoryLog[j].ok /\ CategoryLog[j].n = 0) => j = Len(CategoryLog)

\* the listing has ended on the page held in doc
EndsOnPage == CategoryList /\ pc = "done"

\* one more listing page is downloaded in this step
FetchesNextPage == Len(CategoryLog') = Len(CategoryLog) + 1

\* C16 (amended): the listing stops at the first processed page without a
\* "next" link, whether or not that page had entries: it ends only with all
\* links of the page processed and no "next" link on it; a further page is
\* downloaded only after all links of the current page have been processed
\* and only if the page has a "next" link; and with a "next" link, even on a
\* page without entries, the generator's next step downloads the next page.
C16_StopsWithoutNextLink ==
    /\ [](EndsOnPage => (~doc.hasNext /\ buf = <<>>))
    /\ [][(CategoryList /\ FetchesNextPage) =>
            (pc = "cat_next" /\ running /\ doc.hasNext /\ buf = <<>>)]_vars
    /\ [][(CategoryList /\ pc = "cat_next" /\ running) =>
            IF doc.hasNext THEN FetchesNextPage /\ pc' # "done"
                           ELSE pc' = "done" /\ log' = log]_vars

\* a first page without entries but with a "next" link, then a page with
\* entries and no "next" link, where the listing ends
C16_Witness ==
    /\ EndsOnPage
    /\ Len(CategoryLog) = 2
    /\ CategoryLog[1].oks = <<>>
    /\ CategoryLog[2].ok /\ CategoryLog[2].n > 0
    /\ Len(out) = CategoryLog[2].n

----------------------------------------------------------------------------
(* C19: the frame of _extract_webpage_player_entries *)

PlayerList == ie \in {"legacy", "kierowcow"} /\ result.type = "playlist"

\* the base_data the handler built and passed
GivenBaseData == IF ie = "legacy" THEN LegacyBaseData ELSE KierowcowBaseData

\* entry e is a copy of base with the four media fields set and the title
\* replaced by the decoded 'desc' when that is not empty
FreshCopy(e, base, media) ==
    /\ e.id = Str(media.id)
    /\ e.url = ProtoRelativeUrl(media.file)
    /\ e.duration = IntOrNone(media.length)
    /\ e.vcodec = (IF media.provider = "audio" THEN "none" ELSE "NULL")
    /\ e.title = (IF Unquote(media.desc) = "" THEN base.title ELSE Unquote(media.desc))
    /\ e.timestamp = base.timestamp
    /\ e.thumbnail = base.thumbnail

\* C19: while _extract_webpage_player_entries runs and after it, base_data is
\* the record the handler passed; every yielded entry is that record with id,
\* url, duration and vcodec set from its data-media object and the title
\* replaced by the decoded 'desc' when that is not empty, the other base
\* fields as they are in base_data; and an entry that has been yielded is
\* never changed afterwards.
C19_BaseDataFrame ==
    /\ [](PlayerList =>
            /\ base_data = GivenBaseData
            /\ \A j \in DOMAIN out :
                  /\ out[j].k \in DOMAIN doc.blocks
                  /\ FreshCopy(out[j], GivenBaseData, doc.blocks[out[j].k]))
    /\ [][(PlayerList /\ PlayerList') =>
            (Len(out') >= Len(out) /\ \A j \in DOMAIN out : out'[j] = out[j])]_vars

\* two entries from one document: an audio without 'length' and a video with
\* one, both with the decoded title and the timestamp of base_data
C19_Witness ==
    /\ PlayerList /\ ie = "legacy" /\ pc = "done"
    /\ Len(out) = 2
    /\ out[1].vcodec = "none" /\ out[1].duration = "NULL"
    /\ out[2].vcodec = "NULL" /\ out[2].duration = "int 10"
    /\ out[1].title = "Ala ma" /\ out[1].title # base_data.title
    /\ out[2].timestamp = base_data.timestamp /\ base_data.timestamp = "timestamp"

----------------------------------------------------------------------------
(* C20: a data-media block that cannot be parsed *)

\* the generator has raised at a block whose JSON could not be parsed
RaisedAtUnparsable ==
    /\ pc = "raised"
    /\ i \in DOMAIN doc.blocks
    /\ ~doc.blocks[i].parsed

\* some block after block k would have been yielded
YieldableAfter(k) ==
    \E j \in DOMAIN doc.blocks : j > k /\ PlayerMediaOutcome(doc.blocks[j], seen) = "yield"

\* C20: a data-media block whose JSON cannot be parsed is skipped without
\* raising: _extract_webpage_player_entries never raises at such a block, and
\* so never ends before a later block that it would have yielded.
C20_UnparsableSkipped ==
    PlayerList =>
        /\ err # "AttributeError"
        /\ ~RaisedAtUnparsable
        /\ ~(pc = "raised" /\ i \in DOMAIN doc.blocks /\ ~doc.blocks[i].parsed /\ YieldableAfter(i))

----------------------------------------------------------------------------
(* C17: iterating the entries a second time *)

SecondPass == passes = 2 /\ result.type = "playlist"

PodcastLog == StreamLog("podcast")

\* C17 (as stated): whatever the handler, a second iteration from the start
\* delivers the records of the first one in the same order.
C17_Restartable == (SecondPass /\ pc = "done") => out = first

\* C17 (amended): for the podcast list every download is of an API page
\* within the page count, API page 1 is downloaded once only (list page 0 is
\* the first response), and a page downloaded again holds what it held
\* before; the second iteration of the podcast list and of the article's
\* list delivers a prefix of the first iteration's records and, when it ends
\* without an error, exactly those records in the same order. The entry
\* sequences that are generators are single-pass: their second iteration
\* ends at once, delivers nothing and downloads nothing.
C17_RestartablePagedList ==
    /\ (ie = "podcastlist" /\ result.type = "playlist") =>
          /\ \A a, b \in DOMAIN PodcastLog :
                (PodcastLog[a].index = PodcastLog[b].index /\ PodcastLog[a].ok /\ PodcastLog[b].ok)
                    => PodcastLog[a].oks = PodcastLog[b].oks
          /\ Cardinality({j \in DOMAIN PodcastLog : PodcastLog[j].index = 1}) = 1
          /\ \A j \in DOMAIN PodcastLog : j > 1 => PodcastLog[j].index <= PageCount(doc.itemCount)
    /\ (SecondPass /\ ie \in {"podcastlist", "article"}) =>
          /\ IsPrefix(out, first)
          /\ pc = "done" => out = first
    /\ (SecondPass /\ ie \in Generators) =>
          /\ pc = "done"
          /\ out = <<>>

\* eleven podcast episodes on two pages, delivered twice: API page 2 has been
\* downloaded twice, API page 1 once
C17_Witness ==
    /\ SecondPass /\ ie = "podcastlist" /\ pc = "done"
    /\ Len(first) = PodcastPageSize + 1
    /\ out = first
    /\ Len(PodcastLog) = 3
    /\ PodcastLog[2].index = 2 /\ PodcastLog[3].index = 2

----------------------------------------------------------------------------
(* C21: the temp file of a request of the web front end handled alone *)

\* request r is handled alone: no other request has been started
Alone(r) == \A q \in Requests \ {r} : req[q].pc = "start"

\* the request carries nothing to transcribe: no upload, an empty url, or a
\* url of no supported site
NothingToTranscribe(r) == req[r].input \in {"nofile", "", "other"}

\* the request is at model.transcribe or past it
ReachedTranscription(r) == req[r].pc \in {"transcribe", "remove"} \/ req[r].heard # 0

\* the request has written the very path it transcribes and removes
WroteItsPath(r) ==
    /\ req[r].wrote # "none"
    /\ req[r].wrote = TranscribePath(variant, req[r].route)
    /\ req[r].wrote = RemovePath(variant, req[r].route)

\* C21: in both variants, a request handled alone reaches model.transcribe
\* only after it has itself written the path that is transcribed, which is
\* also the path it removes afterwards, and what it transcribes is its own
\* media; a request with no uploaded file, an empty url or an unsupported
\* url never reaches the transcription or the removal; and once the request
\* has completed, no temp file exists.
C21_TempFileLifecycle ==
    \A r \in Requests :
        Alone(r) =>
            /\ ReachedTranscription(r) => WroteItsPath(r)
            /\ req[r].heard # 0 => req[r].heard = r
            /\ NothingToTranscribe(r) => ~ReachedTranscription(r)
            /\ req[r].pc = "done" => \A p \in TempPaths : disk[p] = 0

====
